---- MODULE Spec2Model ----
(***************************************************************************)
(* rxjs-uploader: the Uploader session (helpers.ts, first revision) and    *)
(* the FileUpload entity (models/file-upload.ts) as a state machine.       *)
(*                                                                         *)
(* One action is one synchronous run of the event loop: a caller's call,   *)
(* a DOM event, a resolved promise (microtask) or an expired delay(0)      *)
(* timer, together with every subscriber it reaches synchronously.         *)
(* The rxjs pipeline built by streamFileUploads is                         *)
(*                                                                         *)
(*   source subject --map(filter)--> scan "src"  --\                       *)
(*   reset subject  ------------------------------> merge --> scan "acc"   *)
(*   source subject --map(filter)--> scan "rem" --flatMap(removal)--/      *)
(*        --> switchMap(execute) --> scan "out" --> subscriber             *)
(*                                                                         *)
(* where every scan is _concatFileUploadArrays with its own seed.          *)
(***************************************************************************)
EXTENDS Integers, Sequences, FiniteSets, TLC

\* ----------------------------------------------------------------- bounds
MaxFiles == 4
MaxBatch == 2
MaxXhr == 2
MaxDelayed == 1
MaxTransportFiles == 1
MaxQueued == 2
MaxRegistrations == 2
MaxSourceFiles == 3

\* ------------------------------------------------------ program constants
BYTES_PER_MB == 1000 * 1000

Ids == 1 .. MaxFiles

\* ProgressEvent inputs of xhr.upload: loaded bytes of a total.
ProgressEvents == {[loaded |-> 1, total |-> 3], [loaded |-> 3, total |-> 3]}

\* The ProgressEvent of the request's 'load' event.
LoadEvent == [loaded |-> 3, total |-> 3]

\* Arguments of setFileCountLimit(): unlimited (0) or a limit.
FileCountLimits == {0, 1, 2}

\* Arguments of reject(): none (0) or an error response with this status.
RejectCauses == {0, 500}

\* HTTP statuses a transport may end with.
Statuses == {201, 204, 302, 404}

\* The source objects of a session: a file input and a drop zone target.
FileSources == {"input", "zone"}

\* Raw files offered by a source: a size in bytes and a declared mime type.
FileSizes == {999999, 1000000}
MimeTypes == {"text/plain", "image/png"}
RawFiles == [size : FileSizes, type : MimeTypes]

\* The file of the pipeline and transport specifications: one the filter admits.
PlainFile == [size |-> 999999, type |-> "text/plain"]

\* --------------------------------------------------------------- helpers
Range(seq) == {seq[i] : i \in 1 .. Len(seq)}

SeqFilter(seq, S) ==
    LET F[i \in 0 .. Len(seq)] ==
            IF i = 0 THEN <<>>
            ELSE IF seq[i] \in S THEN Append(F[i - 1], seq[i]) ELSE F[i - 1]
    IN F[Len(seq)]

\* A concatenation that is not de-duplicated.
Concatenated(seq) == seq

\* lodash uniq: the first occurrence of every element, in order.
Uniq(seq) ==
    LET F[i \in 0 .. Len(seq)] ==
            IF i = 0 THEN <<>>
            ELSE IF seq[i] \in Range(F[i - 1]) THEN F[i - 1]
                 ELSE Append(F[i - 1], seq[i])
    IN F[Len(seq)]

SeqsUpTo(S, n) == UNION {[1 .. k -> S] : k \in 0 .. n}

VARIABLES
    fileUploads,            \* id -> FileUpload fields
    nextId,                 \* number of FileUploads constructed so far, plus one
    fileUploadSubjectsMap,  \* ids with an entry in _fileUploadSubjectsMap
    seeds,                  \* the seed of each scan of the pipeline
    inner,                  \* switchMap's current inner observable
    removalSubs,            \* arrays held by flatMap's removal subscriptions
    executeSubs,            \* id -> live executeStream subscriptions
    xhrs,                   \* the XMLHttpRequests opened, in order
    microtasks,             \* batches awaiting `await _handleFilesAdded`
    config,                 \* the session's configuration fields
    subscribed,             \* streamFileUploads(...).subscribe() was called
    errored,                \* the stream ended with an error notification
    exposed,                \* ids the caller has received in an emission
    emitted,                \* collections emitted to the subscriber in this step
    errors,                 \* errorStream notifications of this step
    limitCalls,             \* onFileCountLimitExceeded arguments of this step
    scans,                  \* accumulator runs of this step, as they return
    inputValue,             \* the `value` of the registered file input
    queuedResults,          \* promises returned by allFilesQueuedCallback
    allFilesQueuedCalls,    \* allFilesQueuedCallback arguments of this step
    fileUploadedCalls,      \* fileUploadedCallback arguments of this step
    allFilesUploadedCalls,  \* allFilesUploadedCallback arguments of this step
    factoryPromises,        \* pending promises of the request-options factory
    registrations,          \* the sources of each streamFileUploads call
    changeListeners,        \* 'change' listeners of the input: the call of each
    dropListeners,          \* 'drop' listeners of the drop zone: the call of each
    laterNext,              \* batches sent to the subjects of later calls, this step
    isDraggedOver,          \* the value of _isDraggedOverSubject
    flagInDocument,         \* the document has an element for the flag selector
    allFilesUploadedSets    \* the sets of entities allFilesUploadedCallback was given

vars == <<fileUploads, nextId, fileUploadSubjectsMap, seeds, inner, removalSubs,
          executeSubs, xhrs, microtasks, config, subscribed, errored, exposed,
          emitted, errors, limitCalls, scans, inputValue, queuedResults,
          allFilesQueuedCalls, fileUploadedCalls, allFilesUploadedCalls,
          factoryPromises,
          registrations, changeListeners, dropListeners, laterNext,
          isDraggedOver, flagInDocument, allFilesUploadedSets>>

\* ----------------------------------------------------------- FileUpload
NoResponse == -1

\* The `file` of an id no FileUpload has been constructed with yet.
NoFile == [size |-> 0, type |-> ""]

\* ------------------------------------------------------- request options
\* IUploadRequestOptions: a key that an object does not have is Absent; the
\* form-field map is absent, null or a map of its fields.
Absent == "absent"
FormFields == {"a", "b"}
NoFormData == [kind |-> "absent", a |-> Absent, b |-> Absent]
NullFormData == [kind |-> "null", a |-> Absent, b |-> Absent]
NoOptions ==
    [url |-> Absent, method |-> Absent, headers |-> Absent, formData |-> NoFormData]

\* The _requestOptions a FileUpload is constructed with (file-upload.ts 74-78).
DefaultRequestOptions ==
    [url |-> "null", method |-> "POST", headers |-> Absent, formData |-> NullFormData]

\* { ...a, ...b } of two option objects: the keys of b replace those of a.
Spread(a, b) ==
    [url |-> IF b.url # Absent THEN b.url ELSE a.url,
     method |-> IF b.method # Absent THEN b.method ELSE a.method,
     headers |-> IF b.headers # Absent THEN b.headers ELSE a.headers,
     formData |-> IF b.formData.kind # "absent" THEN b.formData ELSE a.formData]

\* { ...x, ...y } of two form-field maps; spreading a missing or null map
\* adds nothing.
SpreadFormData(x, y) ==
    [kind |-> "map",
     a |-> IF y.a # Absent THEN y.a ELSE x.a,
     b |-> IF y.b # Absent THEN y.b ELSE x.b]

\* The object _executeFileUpload passes to setRequestOptions when the factory
\* returned options (helpers.ts 823-830).
MergedRequestOptions(requestOptions, existingRequestOptions) ==
    [Spread(requestOptions, existingRequestOptions) EXCEPT
        !.formData = SpreadFormData(requestOptions.formData,
                                    existingRequestOptions.formData)]

\* FileUpload.setRequestOptions
SetRequestOptions(f, options) ==
    [f EXCEPT !.requestOptions = Spread(@, options)]

\* A FileUpload right after its constructor (file-upload.ts 72-96).  `response`
\* is the response's status (NoResponse: none; 0: a response without status);
\* responseCode 0 stands for null/undefined; rejected FALSE for undefined/false.
NewFileUpload(file) ==
    [ file |-> file, state |-> "NotStarted", percent |-> 0,
      response |-> NoResponse, responseCode |-> 0, responseBody |-> "none",
      rejected |-> FALSE, uploadHasStarted |-> FALSE,
      isMarkedForRemoval |-> FALSE, requestOptions |-> DefaultRequestOptions ]

\* /^[23]/ matched against the decimal digits of a status.
RECURSIVE LeadingDigit(_)
LeadingDigit(n) == IF n < 10 THEN n ELSE LeadingDigit(n \div 10)

UploadSuccessOrRedirectCode(status) == LeadingDigit(status) \in {2, 3}

Failed(f) ==
    IF f.response # NoResponse /\ f.response # 0
    THEN ~UploadSuccessOrRedirectCode(f.response)
    ELSE IF f.responseCode # 0
         THEN ~UploadSuccessOrRedirectCode(f.responseCode)
         ELSE f.state = "Failed" \/ f.rejected

Uploaded(f) == ~Failed(f) /\ f.state = "Completed"

Succeeded(f) == Uploaded(f)

Uploading(f) == ~Uploaded(f) /\ ~Failed(f) /\ f.state = "InProgress"

\* A reset that leaves the response code.
ResetKeepingResponseCode(f) ==
    [f EXCEPT !.rejected = FALSE, !.response = NoResponse,
              !.responseBody = "none",
              !.state = "NotStarted", !.percent = 0]

ResetFileUpload(f) ==
    [f EXCEPT !.rejected = FALSE, !.response = NoResponse,
              !.responseBody = "none", !.responseCode = 0,
              !.state = "NotStarted", !.percent = 0]

\* A removal flag that is toggled instead of set.
ToggleMarked(f) == [f EXCEPT !.isMarkedForRemoval = ~@]

\* markForRemoval: _isMarkedForRemovalSubject.next(true).
SetMarked(f) == [f EXCEPT !.isMarkedForRemoval = TRUE]

\* reject(errorResponse?): cause 0 is a call without argument.
RejectFileUpload(f, cause) ==
    [f EXCEPT !.rejected = TRUE,
              !.response = IF cause # 0 THEN cause ELSE @]

\* ------------------------------------------------------- the session state
Stages == {"src", "rem", "acc", "out"}

State ==
    [ fu |-> fileUploads, nextId |-> nextId, map |-> fileUploadSubjectsMap,
      seeds |-> seeds, inner |-> inner, removalSubs |-> removalSubs,
      executeSubs |-> executeSubs, xhrs |-> xhrs, microtasks |-> microtasks,
      config |-> config, subscribed |-> subscribed, errored |-> errored,
      exposed |-> exposed, emitted |-> <<>>, errors |-> <<>>,
      limitCalls |-> <<>>, scans |-> <<>>, inputValue |-> inputValue,
      queuedResults |-> queuedResults, allFilesQueuedCalls |-> <<>>,
      fileUploadedCalls |-> <<>>, allFilesUploadedCalls |-> <<>>,
      factoryPromises |-> factoryPromises,
      registrations |-> registrations, changeListeners |-> changeListeners,
      dropListeners |-> dropListeners, laterNext |-> <<>>,
      isDraggedOver |-> isDraggedOver, flagInDocument |-> flagInDocument ]

Commit(s) ==
    /\ fileUploads' = s.fu
    /\ nextId' = s.nextId
    /\ fileUploadSubjectsMap' = s.map
    /\ seeds' = s.seeds
    /\ inner' = s.inner
    /\ removalSubs' = s.removalSubs
    /\ executeSubs' = s.executeSubs
    /\ xhrs' = s.xhrs
    /\ microtasks' = s.microtasks
    /\ config' = s.config
    /\ subscribed' = s.subscribed
    /\ errored' = s.errored
    /\ exposed' = s.exposed
    /\ emitted' = s.emitted
    /\ errors' = s.errors
    /\ limitCalls' = s.limitCalls
    /\ scans' = s.scans
    /\ inputValue' = s.inputValue
    /\ queuedResults' = s.queuedResults
    /\ allFilesQueuedCalls' = s.allFilesQueuedCalls
    /\ fileUploadedCalls' = s.fileUploadedCalls
    /\ allFilesUploadedCalls' = s.allFilesUploadedCalls
    /\ factoryPromises' = s.factoryPromises
    /\ registrations' = s.registrations
    /\ changeListeners' = s.changeListeners
    /\ dropListeners' = s.dropListeners
    /\ laterNext' = s.laterNext
    /\ isDraggedOver' = s.isDraggedOver
    /\ flagInDocument' = s.flagInDocument
    /\ allFilesUploadedSets' = allFilesUploadedSets \cup
            {Range(s.allFilesUploadedCalls[k]) : k \in DOMAIN s.allFilesUploadedCalls}

Marked(s) == {e \in Ids : s.fu[e].isMarkedForRemoval}

\* An array that is handed on without the filter.
Unfiltered(s, seq) == seq

\* array.filter((fileUpload) => !fileUpload.isMarkedForRemoval)
Kept(s, seq) == SeqFilter(seq, Ids \ Marked(s))

Live(s) == s.subscribed /\ ~s.errored


\* ------------------------------------------------------------ XMLHttpRequest
\* xhr.abort(): an opened or finished request ends UNSENT, its status 0.
Abort(x) ==
    [x EXCEPT !.readyState = "UNSENT", !.status = 0, !.aborted = TRUE]

NewXhr(e) ==
    [ id |-> e, readyState |-> "OPENED", status |-> 0, delayed |-> <<>>,
      subscribed |-> TRUE, abortOnRemoval |-> TRUE, abortOnReset |-> TRUE,
      aborted |-> FALSE, request |-> NoOptions, loaded |-> 0 ]

\* The executeStream callback of _uploadFile: open and send a request, then
\* subscribe the two abort triggers.  isMarkedForRemovalStream is a
\* BehaviorSubject: an entity that is already marked aborts at once.
OpenXhr(s, e) ==
    LET x == [NewXhr(e) EXCEPT !.request = s.fu[e].requestOptions]
    IN [s EXCEPT !.xhrs = Append(@,
            IF s.fu[e].isMarkedForRemoval
            THEN Abort([x EXCEPT !.abortOnRemoval = FALSE])
            ELSE x)]

\* _uploadFile (no request-options factory): subscribe executeStream, whose
\* BehaviorSubject runs the callback immediately.
UploadFile(s, e) ==
    OpenXhr([s EXCEPT !.map = @ \cup {e}, !.executeSubs[e] = @ + 1], e)

\* An executor that runs an entity without recording that it has started.
ExecuteWithoutStarting(s, e) ==
    UploadFile([s EXCEPT !.map = @ \cup {e}], e)

\* _executeFileUpload past the request-options check.  Without a factory the
\* entity gets the session's options and _uploadFile runs at once; with one,
\* both happen when the promise of the factory's result resolves.
ExecuteFileUpload(s, e) ==
    LET s1 == [s EXCEPT !.map = @ \cup {e}, !.fu[e].uploadHasStarted = TRUE]
    IN IF s.config.requestOptionsFactory.kind = "none"
       THEN UploadFile(
                [s1 EXCEPT !.fu[e] = SetRequestOptions(@, s.config.requestOptions)], e)
       ELSE [s1 EXCEPT !.factoryPromises = Append(@,
                [id |-> e, result |-> s.config.requestOptionsFactory,
                 existingRequestOptions |-> s.config.requestOptions])]

\* requestOptionsPromise.then(...) of _executeFileUpload (helpers.ts 820-833).
FactoryResolved(s, promise) ==
    UploadFile(
        [s EXCEPT !.fu[promise.id] =
            IF promise.result.kind = "options"
            THEN SetRequestOptions(@,
                    MergedRequestOptions(promise.result.options,
                                         promise.existingRequestOptions))
            ELSE @],
        promise.id)

RECURSIVE ExecuteEach(_, _)
ExecuteEach(s, seq) ==
    IF seq = <<>> THEN s
    ELSE ExecuteEach(ExecuteFileUpload(s, Head(seq)), Tail(seq))

\* --------------------------------------------------------------- pipeline
EmptyInner == [list |-> <<>>, live |-> {}]

GetFileCountLimit(s) == s.config.fileCountLimit

\* A limit that is enforced only when it is above one.
ExceedsLimitAboveOne(s, seq) ==
    GetFileCountLimit(s) > 1 /\ Len(seq) > GetFileCountLimit(s)

\* A limit that already rejects the collection that reaches it.
ReachesFileCountLimit(s, seq) ==
    GetFileCountLimit(s) > 0 /\ Len(seq) >= GetFileCountLimit(s)

ExceedsFileCountLimit(s, seq) ==
    GetFileCountLimit(s) > 0 /\ Len(seq) > GetFileCountLimit(s)

RECURSIVE MarkForRemoval(_, _)
RECURSIVE MarkEach(_, _)
RECURSIVE ReplayRemovals(_, _)
RECURSIVE ToAcc(_, _)
RECURSIVE ConcatFileUploadArrays(_, _, _)

\* The subscriber's next(): r is what the last scan returned.
Emit(r) ==
    [r.s EXCEPT
        !.emitted = Append(@, [collection |-> r.out,
                               removed |-> Range(r.out) \cap Marked(r.s)]),
        !.exposed = @ \cup Range(r.out)]

\* The last scan of the pipeline and the subscriber.
ToOut(s, cur) ==
    IF ~Live(s) THEN s ELSE Emit(ConcatFileUploadArrays(s, "out", cur))

\* The switchMap of _executeFileUploads behind combineLatest: the callback is
\* called with every array of which each entity is `uploaded`; with "void" it
\* returns nothing, with "sync" the array it was given.
AllFilesUploaded(s, list) ==
    IF /\ s.config.allFilesUploadedCallback # "none"
       /\ \A e \in Range(list) : Uploaded(s.fu[e])
    THEN [s EXCEPT !.allFilesUploadedCalls = Append(@, list)]
    ELSE s

\* An executor that does not ask for the request options.
ExecuteWithoutRequestOptions(s, list) ==
    LET fresh == {e \in Range(list) : ~s.fu[e].uploadHasStarted}
    IN IF list = <<>> THEN ToOut([s EXCEPT !.inner = EmptyInner], <<>>)
       ELSE ToOut(AllFilesUploaded(
                    [ExecuteEach(s, SeqFilter(list, fresh))
                        EXCEPT !.inner = [list |-> list, live |-> fresh]], list),
                  list)

\* _executeFileUploads / _createExecutedFileUploadsStream: every entity that has
\* not started is executed while the stream is built; combineLatest of
\* BehaviorSubjects (not started) and of(...) (started) emits once at once.
ExecuteFileUploads(s, list) ==
    LET fresh == {e \in Range(list) : ~s.fu[e].uploadHasStarted}
    IN IF list = <<>> THEN ToOut([s EXCEPT !.inner = EmptyInner], <<>>)
       ELSE IF fresh # {} /\ ~s.config.areRequestOptionsSet
       THEN \* MissingRequestOptionsError: the stream ends with an error.
            [s EXCEPT !.errored = TRUE, !.inner = EmptyInner, !.removalSubs = <<>>]
       ELSE ToOut(AllFilesUploaded(
                    [ExecuteEach(s, SeqFilter(list, fresh))
                        EXCEPT !.inner = [list |-> list, live |-> fresh]], list),
                  list)

\* A callback that is handed the whole collection.
WholeCollection(s, list) == list

\* fileUploads.filter((fileUpload) => !fileUpload.uploadHasStarted)
NotStarted(s, list) ==
    SeqFilter(list, {e \in Ids : ~s.fu[e].uploadHasStarted})

\* switchMap unsubscribes the inner observable it holds: a promise of
\* allFilesQueuedCallback that is still pending then resolves to nobody.
Superseded(results) ==
    [i \in DOMAIN results |-> [results[i] EXCEPT !.live = FALSE]]

\* The project function of switchMap (helpers.ts 567-597) for the collection
\* `list` of which `fresh` have not started.  allFilesQueuedCallback returns
\* nothing ("void"), the array it was given ("sync") or a promise of that array
\* ("promise"); what it returns, or the collection, is executed.
AllFilesQueued(s, list, fresh) ==
    IF s.config.allFilesQueuedCallback = "none" \/ fresh = <<>>
    THEN ExecuteFileUploads(s, list)
    ELSE IF s.config.allFilesQueuedCallback = "promise"
    THEN [s EXCEPT !.allFilesQueuedCalls = Append(@, fresh),
                   !.inner = EmptyInner,
                   !.queuedResults = Append(@, [list |-> fresh, live |-> TRUE])]
    ELSE ExecuteFileUploads(
            [s EXCEPT !.allFilesQueuedCalls = Append(@, fresh)],
            IF s.config.allFilesQueuedCallback = "sync" THEN fresh ELSE list)

\* switchMap: r is what the middle scan returned.
SwitchMap(r) ==
    AllFilesQueued([r.s EXCEPT !.queuedResults = Superseded(@)], r.out,
                   NotStarted(r.s, r.out))

\* A promise whose result is executed whether or not it was superseded.
QueuedResolvedAnyway(s, result) ==
    IF Live(s) THEN ExecuteFileUploads(s, result.list) ELSE s

\* A promise whose result is executed by nobody.
QueuedResultDropped(s, result) == s

\* The promise of allFilesQueuedCallback resolves: the inner switchMap executes
\* its array when the outer one still holds the subscription.
QueuedResolved(s, result) ==
    IF result.live /\ Live(s) THEN ExecuteFileUploads(s, result.list) ELSE s

\* The middle scan and switchMap.
ToAcc(s, cur) ==
    IF ~Live(s) THEN s ELSE SwitchMap(ConcatFileUploadArrays(s, "acc", cur))

\* merge(...) of the pipeline: r is what the first scan returned.
MergeToAcc(r) == ToAcc(r.s, r.out)

\* The first subscription to the registered sources: scan "src", then on.
ToSrc(s, cur) ==
    IF ~Live(s) THEN s ELSE MergeToAcc(ConcatFileUploadArrays(s, "src", cur))

RECURSIVE SubscribeRemovals(_, _, _)
SubscribeRemovals(s, arr, i) ==
    IF i > Len(arr) THEN s
    ELSE SubscribeRemovals(
            IF s.fu[arr[i]].isMarkedForRemoval THEN ToAcc(s, arr) ELSE s,
            arr, i + 1)

\* _mergeIsMarkedForRemovalStreams: flatMap subscribes the removal stream of
\* every entity of the array r.out that the second scan returned.
MergeIsMarkedForRemovalStreams(r) ==
    IF r.out = <<>> THEN r.s
    ELSE SubscribeRemovals([r.s EXCEPT !.removalSubs = Append(@, r.out)], r.out, 1)

\* The second subscription to the sources: scan "rem", then flatMap.
ToRem(s, cur) ==
    IF ~Live(s) THEN s
    ELSE MergeIsMarkedForRemovalStreams(ConcatFileUploadArrays(s, "rem", cur))

\* FileUpload.markForRemoval: next(true) on the BehaviorSubject reaches the
\* abort subscriptions of the entity's requests (take(1)) and every removal
\* subscription of flatMap, which replays its array into the middle scan.
MarkForRemoval(s, e) ==
    ReplayRemovals(
        [s EXCEPT
            !.fu[e] = SetMarked(@),
            !.xhrs = [i \in DOMAIN s.xhrs |->
                        IF s.xhrs[i].id = e /\ s.xhrs[i].abortOnRemoval
                        THEN Abort([s.xhrs[i] EXCEPT !.abortOnRemoval = FALSE])
                        ELSE s.xhrs[i]]],
        SelectSeq(s.removalSubs, LAMBDA a : e \in Range(a)))

MarkEach(s, seq) ==
    IF seq = <<>> THEN s
    ELSE MarkEach(MarkForRemoval(s, Head(seq)), Tail(seq))

ReplayRemovals(s, arrays) ==
    IF arrays = <<>> THEN s
    ELSE ReplayRemovals(ToAcc(s, Head(arrays)), Tail(arrays))

\* this._onFileCountLimitExceeded(this._getFileCountLimit()), when configured.
OnFileCountLimitExceeded(s) ==
    IF s.config.onFileCountLimitExceeded
    THEN [s EXCEPT !.limitCalls = Append(@, GetFileCountLimit(s))]
    ELSE s

\* scan assigns its seed when the accumulator returns.
ScanReturn(s, run) ==
    [ s |-> [s EXCEPT !.seeds[run.stage] = run.result,
                      !.scans = Append(@, [run EXCEPT
                            !.marked = Marked(s),
                            !.started = {e \in Ids : s.fu[e].uploadHasStarted}])],
      out |-> run.result ]

\* The accumulator of scan (helpers.ts 937-974) applied to the seed of `stage`.
ConcatFileUploadArrays(s, stage, cur) ==
    IF cur = <<>>
    THEN [s |-> [s EXCEPT !.seeds[stage] = <<>>], out |-> <<>>]
    ELSE LET s0 == [s EXCEPT !.map = @ \ (Range(cur) \cap Marked(s))]
             previousAccFileUploads == Kept(s0, s.seeds[stage])
             currentFileUploads == Kept(s0, cur)
             accFileUploads == Uniq(previousAccFileUploads \o currentFileUploads)
             newFileUploads ==
                 SeqFilter(currentFileUploads, Ids \ Range(previousAccFileUploads))
             exceeds == \/ ExceedsFileCountLimit(s0, currentFileUploads)
                        \/ ExceedsFileCountLimit(s0, accFileUploads)
             run == [ stage |-> stage, limit |-> GetFileCountLimit(s0),
                      previous |-> previousAccFileUploads, batch |-> cur,
                      current |-> currentFileUploads, candidate |-> accFileUploads,
                      added |-> Range(newFileUploads),
                      result |-> IF exceeds THEN previousAccFileUploads
                                 ELSE accFileUploads,
                      marked |-> {}, started |-> {} ]
         IN ScanReturn(
                IF exceeds
                THEN OnFileCountLimitExceeded(MarkEach(s0, newFileUploads))
                ELSE s0,
                run)

\* fileUploadSubject.next(...) of an entity: the inner combineLatest emits its
\* array again when it holds a subscription to that subject.
SubjectNext(s, e) ==
    IF Live(s) /\ e \in s.inner.live
    THEN ToOut(AllFilesUploaded(s, s.inner.list), s.inner.list)
    ELSE s


\* ---------------------------------------------------------- policy filter
\* A size check that admits a file of exactly the limit.
SizeAllowedUpToLimit(c, file) ==
    c.fileSizeLimitMb = 0 \/ file.size <= c.fileSizeLimitMb * BYTES_PER_MB

SizeAllowed(c, file) ==
    c.fileSizeLimitMb = 0 \/ file.size < c.fileSizeLimitMb * BYTES_PER_MB

TypeAllowed(c, file) ==
    "*" \in c.allowedContentTypes \/ file.type \in c.allowedContentTypes

Allowed(c, file) == SizeAllowed(c, file) /\ TypeAllowed(c, file)

\* A filter that checks the content type first.
RejectionErrorTypeFirst(c, file) ==
    IF ~TypeAllowed(c, file) THEN "DisallowedContentTypeError"
    ELSE "FileSizeLimitExceededError"

RejectionError(c, file) ==
    IF ~SizeAllowed(c, file) THEN "FileSizeLimitExceededError"
    ELSE "DisallowedContentTypeError"

\* allowedFiles of _createFileUploads.  The File objects of a FileList are
\* distinct objects, also when they are alike: uniq(allowedFiles) drops none.
AllowedFiles(c, files) == SelectSeq(files, LAMBDA file : Allowed(c, file))

\* The ids of the FileUploads constructed for the allowed files, in order.
CreatedIds(s, files) ==
    [k \in 1 .. Len(AllowedFiles(s.config, files)) |-> s.nextId + k - 1]

RejectionErrors(s, files) ==
    LET F[i \in 0 .. Len(files)] ==
            IF i = 0 THEN <<>>
            ELSE IF Allowed(s.config, files[i]) THEN F[i - 1]
                 ELSE Append(F[i - 1], RejectionError(s.config, files[i]))
    IN F[Len(files)]

\* _createFileUploads: one error per rejected file, one registered FileUpload
\* per allowed file; the array is handed on after the await (a microtask).
CreateFileUploads(s, files) ==
    LET ids == CreatedIds(s, files)
    IN [s EXCEPT !.errors = @ \o RejectionErrors(s, files),
                 !.fu = [e \in Ids |->
                            IF e \in Range(ids)
                            THEN NewFileUpload(
                                    AllowedFiles(s.config, files)[e - s.nextId + 1])
                            ELSE @[e]],
                 !.nextId = @ + Len(ids),
                 !.map = @ \cup Range(ids),
                 !.microtasks = Append(@, ids)]

IsSingleFileInput(s) == ~s.config.multiple

\* A 'change' listener that does not empty the collection first.
HandleChangeAppending(s, files) == CreateFileUploads(s, files)

\* The 'change' listener of _registerInput, up to its await.
HandleChange(s, files) ==
    CreateFileUploads(
        IF IsSingleFileInput(s) THEN ToRem(ToSrc(s, <<>>), <<>>) ELSE s, files)

\* The map(filter) behind the source subject, before each of the two scans
\* that subscribe to it.
FilteredToSrc(s, batch) == ToSrc(s, Kept(s, batch))

FilteredToRem(s, batch) == ToRem(s, Kept(s, batch))

\* A listener of a later streamFileUploads call: r.s is the state after the
\* listener created its entities; the subject it sends them to after its
\* await is the one of call r.call, which has no subscriber here.
LaterNext(r) ==
    [r.s EXCEPT !.microtasks = SubSeq(@, 1, Len(@) - 1),
                !.laterNext = Append(@, [call |-> r.call,
                                         batch |-> r.s.microtasks[Len(r.s.microtasks)]])]

\* A gate that permits drag and drop whatever the document holds.
CanAlwaysDragAndDrop(s) == TRUE

\* _canDragAndDrop: no flag selector is configured, or the document has an
\* element that matches it.
CanDragAndDrop(s) == ~s.config.dragAndDropFlagSelector \/ s.flagInDocument

HandleDragOver(s) ==
    IF CanDragAndDrop(s) THEN [s EXCEPT !.isDraggedOver = TRUE] ELSE s

HandleDragLeave(s) ==
    IF CanDragAndDrop(s) THEN [s EXCEPT !.isDraggedOver = FALSE] ELSE s

\* The 'drop' listener of _registerDropZone, up to its await: _handleDrop
\* creates the entities, or returns [] when drag and drop is not permitted.
HandleDrop(s, files) ==
    IF CanDragAndDrop(s)
    THEN CreateFileUploads([s EXCEPT !.isDraggedOver = FALSE], files)
    ELSE [s EXCEPT !.microtasks = Append(@, <<>>)]

\* The 'change' listeners of the input, in the order in which they were added.
RECURSIVE DispatchChange(_, _, _)
DispatchChange(s, listeners, files) ==
    IF listeners = <<>> THEN s
    ELSE DispatchChange(
            IF Head(listeners) = 1 THEN HandleChange(s, files)
            ELSE LaterNext([s |-> CreateFileUploads(s, files),
                            call |-> Head(listeners)]),
            Tail(listeners), files)

\* The 'drop' listeners of the drop zone.
RECURSIVE DispatchDrop(_, _, _)
DispatchDrop(s, listeners, files) ==
    IF listeners = <<>> THEN s
    ELSE DispatchDrop(
            IF Head(listeners) = 1 THEN HandleDrop(s, files)
            ELSE LaterNext([s |-> HandleDrop(s, files), call |-> Head(listeners)]),
            Tail(listeners), files)

\* fileUploadsSubject.next(batch): both subscriptions to the source, in the
\* order in which merge subscribed them.
SourceNext(s, batch) == FilteredToRem(FilteredToSrc(s, batch), batch)

\* ------------------------------------------------------------------ clear
\* A reset that aborts the request and leaves its event subscription.
ResetXhrKeepingEvents(x) ==
    IF x.abortOnReset THEN Abort([x EXCEPT !.abortOnReset = FALSE]) ELSE x

ResetXhr(x) ==
    LET y == [x EXCEPT !.subscribed = FALSE, !.delayed = <<>>]
    IN IF x.abortOnReset THEN Abort([y EXCEPT !.abortOnReset = FALSE]) ELSE y

\* Uploader.clear: the reset subject reaches the three pipeline subscriptions,
\* then takeUntil and the abort subscription of every request; then the map is
\* emptied and every temporary subscription is unsubscribed.
Unsubscribe(s) ==
    [s EXCEPT !.xhrs = [i \in DOMAIN s.xhrs |-> ResetXhr(s.xhrs[i])],
              !.map = {},
              !.executeSubs = [e \in Ids |-> 0],
              !.inputValue = "",
              !.dropListeners = <<>>]

ClearSession(s) == Unsubscribe(ToRem(ToAcc(ToSrc(s, <<>>), <<>>), <<>>))

\* ----------------------------------------------------- transport handlers
\* Math.round(NaN) and Math.round(Infinity), which are of type 'number'.
NaN == -1
Infinity == 1000000

\* Math.round(100 * event.loaded / event.total)
ProgressPercent(loaded, total) ==
    IF total = 0 THEN (IF loaded = 0 THEN NaN ELSE Infinity)
    ELSE (200 * loaded + total) \div (2 * total)

\* An error handler that also aborts the requests of the other entities.
HandleErrorAbortingAll(s, e) ==
    SubjectNext(
        [s EXCEPT !.fu[e].percent = 100, !.fu[e].state = "Failed",
                  !.fu[e].responseBody = "error", !.fu[e].responseCode = 0,
                  !.errors = Append(@, "Error"),
                  !.xhrs = [i \in DOMAIN s.xhrs |->
                              IF s.xhrs[i].id # e THEN Abort(s.xhrs[i])
                              ELSE s.xhrs[i]]], e)

\* handleError of _uploadFile with an error object.
HandleError(s, e) ==
    SubjectNext(
        [s EXCEPT !.fu[e].percent = 100, !.fu[e].state = "Failed",
                  !.fu[e].responseBody = "error", !.fu[e].responseCode = 0,
                  !.errors = Append(@, "Error")], e)

\* The status handed to `new Response(body, { status })`.
ResponseStatus(status) ==
    IF status # 0 /\ status >= 200 /\ status <= 599 THEN status ELSE 500

\* The Response constructor throws a TypeError for a body that is not null
\* together with a null body status; xhr.response, a string, is never null.
NullBodyStatus(status) == status \in {101, 103, 204, 205, 304}

\* this._fileUploadedCallback(_fileUpload), when configured: it returns nothing
\* ("void") or the entity it was given ("sync"), which is published either way.
FileUploaded(s, e) ==
    IF s.config.fileUploadedCallback # "none"
    THEN [s EXCEPT !.fileUploadedCalls = Append(@, e)]
    ELSE s

\* The subscriber of merge(progress, load).pipe(delay(0)) for one event of
\* request x, run when its timer expires.  It is an async function: what it
\* throws rejects its promise and reaches nobody.
HandleDelayed(s, x, event) ==
    LET e == x.id
    IN IF x.readyState # "DONE"
       THEN SubjectNext(
                [s EXCEPT !.fu[e].percent =
                              ProgressPercent(event.loaded, event.total),
                          !.fu[e].state = "InProgress"], e)
       ELSE IF s.fu[e].state # "Completed"
       THEN IF NullBodyStatus(ResponseStatus(x.status))
            THEN [s EXCEPT !.fu[e].percent = 100,
                           !.fu[e].state = "Completed"]
            ELSE SubjectNext(
                    FileUploaded(
                        [s EXCEPT !.fu[e].percent = 100,
                                  !.fu[e].state = "Completed",
                                  !.fu[e].response = ResponseStatus(x.status),
                                  !.fu[e].responseBody = "response",
                                  !.fu[e].responseCode = x.status], e), e)
       ELSE s

\* FileUpload.retry: executeStream reaches every live subscription of
\* _uploadFile, each of which opens a new request.
\* A retry that opens a request whether or not executeStream is subscribed.
RetryUnsubscribed(s, e, n) == OpenXhr(s, e)

RECURSIVE RetryFileUpload(_, _, _)
RetryFileUpload(s, e, n) ==
    IF n = 0 THEN s ELSE RetryFileUpload(OpenXhr(s, e), e, n - 1)

\* ------------------------------------------------------------ registration
InputRegistered(s) == \E r \in DOMAIN s.registrations : "input" \in s.registrations[r]

\* _dropZoneEventListenersMap.has(element)
DropZoneMapped(s) == \E r \in DOMAIN s.registrations : "zone" \in s.registrations[r]

\* _registerInput of call r: fromEvent(inputElement, 'change').subscribe(...)
RegisterInput(s, r) == [s EXCEPT !.changeListeners = Append(@, r)]

\* _registerDropZone of call r: the listeners are made and attached only when
\* the element has no entry in _dropZoneEventListenersMap.
RegisterDropZone(s, r) ==
    IF DropZoneMapped(s) THEN s ELSE [s EXCEPT !.dropListeners = Append(@, r)]

\* _registerSources: the inputs, then the drop zones, then the limit of a
\* session of which every registered input is single-file.
RegisterSources(s, srcs, multiple) ==
    LET r == Len(s.registrations) + 1
        s1 == IF "input" \in srcs THEN RegisterInput(s, r) ELSE s
        s2 == IF "zone" \in srcs THEN RegisterDropZone(s1, r) ELSE s1
        s3 == [s2 EXCEPT !.config.multiple = @ \/ ("input" \in srcs /\ multiple),
                         !.registrations = Append(@, srcs)]
    IN IF IsSingleFileInput(s3) THEN [s3 EXCEPT !.config.fileCountLimit = 1] ELSE s3

\* ----------------------------------------------------------------- actions
\* No request-options factory is configured.
NoFactory == [kind |-> "none", options |-> NoOptions]

DefaultConfig ==
    [ allowedContentTypes |-> {"*"}, fileCountLimit |-> 0, fileSizeLimitMb |-> 0,
      areRequestOptionsSet |-> FALSE, onFileCountLimitExceeded |-> FALSE,
      multiple |-> FALSE, allFilesQueuedCallback |-> "none",
      fileUploadedCallback |-> "none", allFilesUploadedCallback |-> "none",
      requestOptions |-> NoOptions, requestOptionsFactory |-> NoFactory,
      dragAndDropFlagSelector |-> FALSE ]

InitWith(configs) ==
    /\ fileUploads = [e \in Ids |-> NewFileUpload(NoFile)]
    /\ nextId = 1
    /\ fileUploadSubjectsMap = {}
    /\ seeds = [st \in Stages |-> <<>>]
    /\ inner = EmptyInner
    /\ removalSubs = <<>>
    /\ executeSubs = [e \in Ids |-> 0]
    /\ xhrs = <<>>
    /\ microtasks = <<>>
    /\ config \in configs
    /\ subscribed = FALSE
    /\ errored = FALSE
    /\ exposed = {}
    /\ emitted = <<>>
    /\ errors = <<>>
    /\ limitCalls = <<>>
    /\ scans = <<>>
    /\ inputValue = ""
    /\ queuedResults = <<>>
    /\ allFilesQueuedCalls = <<>>
    /\ fileUploadedCalls = <<>>
    /\ allFilesUploadedCalls = <<>>
    /\ factoryPromises = <<>>
    /\ registrations = <<>>
    /\ changeListeners = <<>>
    /\ dropListeners = <<>>
    /\ laterNext = <<>>
    /\ isDraggedOver = FALSE
    /\ flagInDocument = FALSE
    /\ allFilesUploadedSets = {}

\* The configurations of the policy filter: fileSizeLimitMb unset or 1,
\* allowedContentTypes with and without the wildcard, or empty.
PolicyConfigs ==
    {[DefaultConfig EXCEPT !.fileSizeLimitMb = mb, !.allowedContentTypes = types] :
        mb \in {0, 1},
        types \in {{"*"}, {"text/plain"}, {"*", "image/png"}, {}}}

\* new Uploader({ allowedContentTypes, fileSizeLimitMb, onFileCountLimitExceeded })
Init ==
    InitWith({[DefaultConfig EXCEPT !.allowedContentTypes = {"text/plain"},
                                    !.onFileCountLimitExceeded = TRUE]})

\* uploader.streamFileUploads('single' | 'multiple').subscribe()
StreamFileUploads(multiple) ==
    /\ ~subscribed
    /\ Commit([RegisterSources(State, {"input"}, multiple)
                EXCEPT !.subscribed = TRUE])

\* uploader.streamFileUploads(...fileSources).subscribe() with the session's
\* input, its drop zone or both; `multiple` is the input's attribute.
StreamFileSources(srcs, multiple) ==
    /\ ~subscribed
    /\ srcs # {}
    /\ multiple => "input" \in srcs
    /\ Commit([RegisterSources(State, srcs, multiple) EXCEPT !.subscribed = TRUE])

\* A later call of streamFileUploads(...fileSources), whose stream the model
\* does not subscribe to.
StreamFileSourcesAgain(srcs, multiple) ==
    /\ subscribed
    /\ Len(registrations) < MaxRegistrations
    /\ srcs # {}
    /\ multiple => "input" \in srcs
    /\ InputRegistered(State) /\ "input" \in srcs => multiple = config.multiple
    /\ Commit(RegisterSources(State, srcs, multiple))

SetRequestUrl ==
    /\ ~config.areRequestOptionsSet
    /\ Commit([State EXCEPT !.config.areRequestOptionsSet = TRUE,
                            !.config.requestOptions.url = "S"])

SetFileCountLimit(limit) ==
    /\ config.fileCountLimit # limit
    /\ Commit([State EXCEPT !.config.fileCountLimit = limit])

\* A 'change' event of the file input with `files` selected. The user agent
\* dispatches it as a task, like the events of a request: the continuations
\* of the listeners that ran before it have run.
Change(files) ==
    /\ subscribed
    /\ microtasks = <<>>
    /\ Len(files) <= (IF config.multiple THEN MaxBatch ELSE 1)
    /\ changeListeners # <<>>
    /\ nextId + Len(CreatedIds(State, files)) * Len(changeListeners) - 1 <= MaxFiles
    /\ Commit(DispatchChange(
            [State EXCEPT !.inputValue = IF files = <<>> THEN "" ELSE "files"],
            changeListeners, files))

\* A 'drop' event of the drop zone with `files` in its dataTransfer.
Drop(files) ==
    /\ dropListeners # <<>>
    /\ microtasks = <<>>
    /\ Len(files) <= MaxBatch
    /\ nextId + Len(CreatedIds(State, files)) * Len(dropListeners) - 1 <= MaxFiles
    /\ Commit(DispatchDrop(State, dropListeners, files))

\* A 'dragover' event of the drop zone.
DragOver ==
    /\ dropListeners # <<>>
    /\ microtasks = <<>>
    /\ Commit(HandleDragOver(State))

\* A 'dragleave' event of the drop zone.
DragLeave ==
    /\ dropListeners # <<>>
    /\ microtasks = <<>>
    /\ Commit(HandleDragLeave(State))

\* The page adds or removes the element the flag selector matches.
ToggleFlag ==
    /\ config.dragAndDropFlagSelector
    /\ microtasks = <<>>
    /\ Commit([State EXCEPT !.flagInDocument = ~@])

\* The continuation of the 'change' listener after its await.
Deliver ==
    /\ microtasks # <<>>
    /\ Commit(SourceNext([State EXCEPT !.microtasks = Tail(@)], Head(microtasks)))

CallMarkForRemoval(e) ==
    /\ e \in exposed
    /\ Commit(MarkForRemoval(State, e))

CallReset(e) ==
    /\ e \in exposed
    /\ Commit([State EXCEPT !.fu[e] = ResetFileUpload(@)])

CallReject(e, cause) ==
    /\ e \in exposed
    /\ Commit([State EXCEPT !.fu[e] = RejectFileUpload(@, cause)])

CallRetry(e) ==
    /\ e \in exposed
    /\ Len(xhrs) + executeSubs[e] <= MaxXhr
    /\ Commit(RetryFileUpload(State, e, executeSubs[e]))

Clear ==
    Commit(ClearSession(State))

\* The promise of a request-options factory result resolves.
ResolveFactory(i) ==
    /\ i \in DOMAIN factoryPromises
    /\ Commit(FactoryResolved(
            [State EXCEPT !.factoryPromises =
                SubSeq(@, 1, i - 1) \o SubSeq(@, i + 1, Len(@))],
            factoryPromises[i]))

\* A promise returned by allFilesQueuedCallback resolves (a microtask).
ResolveQueued(i) ==
    /\ i \in DOMAIN queuedResults
    /\ Commit(QueuedResolved(
            [State EXCEPT !.queuedResults =
                SubSeq(@, 1, i - 1) \o SubSeq(@, i + 1, Len(@))],
            queuedResults[i]))

\* Tasks of the event loop run when no microtask is left.
XhrProgress(i, event) ==
    /\ microtasks = <<>>
    /\ xhrs[i].readyState = "OPENED"
    /\ xhrs[i].subscribed
    /\ Len(xhrs[i].delayed) < MaxDelayed
    /\ Commit([State EXCEPT !.xhrs[i].delayed = Append(@, event)])

XhrLoad(i, status) ==
    /\ microtasks = <<>>
    /\ xhrs[i].readyState = "OPENED"
    /\ Commit([State EXCEPT
            !.xhrs[i].readyState = "DONE",
            !.xhrs[i].status = status,
            !.xhrs[i].delayed =
                IF xhrs[i].subscribed THEN Append(@, LoadEvent) ELSE @])

\* A 'progress' event of xhr.upload that reports at least as many bytes as
\* the one before it.
XhrProgressInOrder(i, event) ==
    /\ microtasks = <<>>
    /\ xhrs[i].readyState = "OPENED"
    /\ xhrs[i].subscribed
    /\ Len(xhrs[i].delayed) < MaxDelayed
    /\ event.loaded >= xhrs[i].loaded
    /\ Commit([State EXCEPT !.xhrs[i].delayed = Append(@, event),
                            !.xhrs[i].loaded = event.loaded])

XhrError(i) ==
    /\ microtasks = <<>>
    /\ xhrs[i].readyState = "OPENED"
    /\ LET s == [State EXCEPT !.xhrs[i].readyState = "DONE"]
       IN Commit(IF xhrs[i].subscribed THEN HandleError(s, xhrs[i].id) ELSE s)

\* The delay(0) timer of the oldest delayed event of request i expires.
Timer(i) ==
    /\ microtasks = <<>>
    /\ xhrs[i].delayed # <<>>
    /\ Commit(HandleDelayed([State EXCEPT !.xhrs[i].delayed = Tail(@)],
                            xhrs[i], Head(xhrs[i].delayed)))

\* The collection pipeline: sources, the count limit, removals and clear.
Next ==
    \/ \E m \in BOOLEAN : StreamFileUploads(m)
    \/ SetRequestUrl
    \/ \E n \in FileCountLimits : SetFileCountLimit(n)
    \/ \E files \in SeqsUpTo({PlainFile}, MaxBatch) :
            nextId + Len(files) - 1 <= MaxSourceFiles /\ Change(files)
    \/ Deliver
    \/ \E e \in Ids : CallMarkForRemoval(e)
    \/ Clear

Spec == Init /\ [][Next]_vars

\* The same sessions with up to MaxFiles entities: two selections of two files.
NextLong ==
    \/ \E m \in BOOLEAN : StreamFileUploads(m)
    \/ SetRequestUrl
    \/ \E n \in FileCountLimits : SetFileCountLimit(n)
    \/ \E files \in SeqsUpTo({PlainFile}, MaxBatch) : Change(files)
    \/ Deliver
    \/ \E e \in Ids : CallMarkForRemoval(e)
    \/ Clear

SpecLong == Init /\ [][NextLong]_vars

\* The transport of the first MaxTransportFiles entities of a session, with the
\* caller's operations on them.
NextTransport ==
    \/ \E m \in BOOLEAN : StreamFileUploads(m)
    \/ SetRequestUrl
    \/ nextId <= MaxTransportFiles /\ Change(<<PlainFile>>)
    \/ Deliver
    \/ \E e \in Ids : CallMarkForRemoval(e)
    \/ \E e \in Ids : CallReset(e)
    \/ \E e \in Ids, cause \in RejectCauses : CallReject(e, cause)
    \/ \E e \in Ids : CallRetry(e)
    \/ Clear
    \/ \E i \in DOMAIN xhrs, event \in ProgressEvents : XhrProgress(i, event)
    \/ \E i \in DOMAIN xhrs, st \in Statuses : XhrLoad(i, st)
    \/ \E i \in DOMAIN xhrs : XhrError(i)
    \/ \E i \in DOMAIN xhrs : Timer(i)

SpecTransport == Init /\ [][NextTransport]_vars

\* The 'progress' events of xhr.upload: an upload whose body length is 3, and
\* one whose body is empty, for which the event's total is 0.
UploadProgressEvents == ProgressEvents \cup {[loaded |-> 0, total |-> 0]}

\* One attempt per entity, fed by a transport whose progress events never
\* report fewer bytes than before: no reset, retry, removal or clear.
NextProgress ==
    \/ \E m \in BOOLEAN : StreamFileUploads(m)
    \/ SetRequestUrl
    \/ \E files \in SeqsUpTo({PlainFile}, MaxBatch) :
            nextId + Len(files) <= MaxBatch + 1 /\ Change(files)
    \/ Deliver
    \/ \E i \in DOMAIN xhrs, event \in UploadProgressEvents :
            XhrProgressInOrder(i, event)
    \/ \E i \in DOMAIN xhrs, st \in Statuses : XhrLoad(i, st)
    \/ \E i \in DOMAIN xhrs : XhrError(i)
    \/ \E i \in DOMAIN xhrs : Timer(i)

SpecProgress == Init /\ [][NextProgress]_vars

\* The policy filter under every configuration of PolicyConfigs.
InitPolicy == InitWith(PolicyConfigs)

NextPolicy ==
    \/ \E m \in BOOLEAN : StreamFileUploads(m)
    \/ SetRequestUrl
    \/ \E files \in SeqsUpTo(RawFiles, MaxBatch) : Change(files)
    \/ Deliver

SpecPolicy == InitPolicy /\ [][NextPolicy]_vars

\* The pre-flight callback: sessions configured with an allFilesQueuedCallback
\* that returns nothing, its argument, or a promise of its argument.
QueuedConfigs ==
    {[DefaultConfig EXCEPT !.allowedContentTypes = {"text/plain"},
                           !.allFilesQueuedCallback = kind] :
        kind \in {"none", "void", "sync", "promise"}}

InitQueued == InitWith(QueuedConfigs)

NextQueued ==
    \/ \E m \in BOOLEAN : StreamFileUploads(m)
    \/ SetRequestUrl
    \/ \E files \in SeqsUpTo({PlainFile}, MaxBatch) :
            nextId + Len(files) - 1 <= MaxSourceFiles /\ Change(files)
    \/ Len(queuedResults) < MaxQueued /\ Deliver
    \/ \E e \in Ids : Len(queuedResults) < MaxQueued /\ CallMarkForRemoval(e)
    \/ Clear
    \/ \E i \in DOMAIN queuedResults : ResolveQueued(i)

SpecQueued == InitQueued /\ [][NextQueued]_vars

\* The transport of the entities of one batch, in sessions without callbacks
\* and with a fileUploadedCallback and an allFilesUploadedCallback that return
\* nothing or their argument.
BatchConfigs ==
    {[DefaultConfig EXCEPT !.allowedContentTypes = {"text/plain"},
                           !.fileUploadedCallback = kind,
                           !.allFilesUploadedCallback = kind] :
        kind \in {"none", "void", "sync"}}

InitBatch == InitWith(BatchConfigs)

NextBatch ==
    \/ StreamFileUploads(TRUE)
    \/ SetRequestUrl
    \/ \E files \in SeqsUpTo({PlainFile}, MaxBatch) :
            nextId <= MaxTransportFiles /\ Change(files)
    \/ Deliver
    \/ \E i \in DOMAIN xhrs, event \in ProgressEvents : XhrProgress(i, event)
    \/ \E i \in DOMAIN xhrs, st \in Statuses : XhrLoad(i, st)
    \/ \E i \in DOMAIN xhrs : XhrError(i)
    \/ \E i \in DOMAIN xhrs : Timer(i)

SpecBatch == InitBatch /\ [][NextBatch]_vars

\* The sources of a session: new Uploader({ requestUrl }) with no file count
\* limit, registered with its input, its drop zone or both, once or twice.
SourcesConfigs ==
    {[DefaultConfig EXCEPT !.areRequestOptionsSet = TRUE, !.requestOptions.url = "S"]}

InitSources == InitWith(SourcesConfigs)

NextSources ==
    \/ \E srcs \in SUBSET FileSources, m \in BOOLEAN : StreamFileSources(srcs, m)
    \/ \E srcs \in SUBSET FileSources, m \in BOOLEAN : StreamFileSourcesAgain(srcs, m)
    \/ \E files \in SeqsUpTo({PlainFile}, MaxBatch) :
            /\ nextId + Len(files) * Len(changeListeners) - 1 <= MaxSourceFiles
            /\ Change(files)
    \/ \E files \in SeqsUpTo({PlainFile}, MaxBatch) :
            /\ nextId + Len(files) * Len(dropListeners) - 1 <= MaxSourceFiles
            /\ Drop(files)
    \/ Deliver
    \/ \E e \in Ids : CallMarkForRemoval(e)
    \/ Clear

SpecSources == InitSources /\ [][NextSources]_vars

\* new Uploader({ requestUrl, fileCountLimit: 1, allFilesUploadedCallback })
\* with a multi-file input: uploads that complete, further selections and
\* removals.
HookConfigs ==
    {[DefaultConfig EXCEPT !.areRequestOptionsSet = TRUE,
                           !.requestOptions.url = "S",
                           !.fileCountLimit = 1,
                           !.allFilesUploadedCallback = kind] :
        kind \in {"void", "sync"}}

InitHook == InitWith(HookConfigs)

NextHook ==
    \/ StreamFileUploads(TRUE)
    \/ \E files \in SeqsUpTo({PlainFile}, MaxBatch) :
            nextId + Len(files) <= MaxBatch + 1 /\ Change(files)
    \/ Deliver
    \/ \E e \in Ids : CallMarkForRemoval(e)
    \/ \E i \in DOMAIN xhrs, st \in Statuses : XhrLoad(i, st)
    \/ \E i \in DOMAIN xhrs : XhrError(i)
    \/ \E i \in DOMAIN xhrs : Timer(i)

SpecHook == InitHook /\ [][NextHook]_vars

\* Sessions whose request options are set, with and without an
\* allFilesQueuedCallback and a request-options factory.
LiveConfigs ==
    {[DefaultConfig EXCEPT !.areRequestOptionsSet = TRUE,
                           !.requestOptions.url = "S",
                           !.allFilesQueuedCallback = kind,
                           !.requestOptionsFactory = factory] :
        kind \in {"none", "void", "sync", "promise"},
        factory \in {NoFactory, [kind |-> "options",
                                 options |-> [NoOptions EXCEPT !.url = "F"]]}}

InitLive == InitWith(LiveConfigs)

\* The caller's part: finitely many selections, removals and clears.
NextCaller ==
    \/ \E m \in BOOLEAN : StreamFileUploads(m)
    \/ \E files \in SeqsUpTo({PlainFile}, MaxBatch) :
            files # <<>> /\ nextId + Len(files) <= MaxBatch + 1 /\ Change(files)
    \/ \E e \in Ids : ~fileUploads[e].isMarkedForRemoval /\ CallMarkForRemoval(e)
    \/ fileUploadSubjectsMap # {} /\ Clear

\* The promises of the callback and of the factory resolve.
ResolveSome ==
    \/ \E i \in DOMAIN queuedResults : ResolveQueued(i)
    \/ \E i \in DOMAIN factoryPromises : ResolveFactory(i)

NextLive == NextCaller \/ Deliver \/ ResolveSome

\* The steps of Deliver, ResolveQueued and ResolveFactory as the queue of
\* each sees them: the oldest microtask runs; a pending promise settles.
Without(seq, i) == SubSeq(seq, 1, i - 1) \o SubSeq(seq, i + 1, Len(seq))

MicrotaskRuns == microtasks # <<>> /\ microtasks' = Tail(microtasks)

QueuedSettles ==
    \E i \in DOMAIN queuedResults : queuedResults' = Without(queuedResults, i)

FactorySettles ==
    \E i \in DOMAIN factoryPromises : factoryPromises' = Without(factoryPromises, i)

\* The event loop runs every microtask, and every promise of the callback and
\* of the factory resolves.
SpecLive ==
    /\ InitLive /\ [][NextLive]_vars
    /\ WF_microtasks(MicrotaskRuns)
    /\ WF_queuedResults(QueuedSettles)
    /\ WF_factoryPromises(FactorySettles)

\* The drop zone of a session with and without a dragAndDropFlagSelector.
DragConfigs ==
    {[c EXCEPT !.dragAndDropFlagSelector = b] : c \in SourcesConfigs, b \in BOOLEAN}

InitDrag == InitWith(DragConfigs)

NextDrag ==
    \/ \E m \in BOOLEAN : StreamFileSources({"input", "zone"}, m)
    \/ StreamFileSources({"zone"}, FALSE)
    \/ DragOver
    \/ DragLeave
    \/ ToggleFlag
    \/ \E files \in SeqsUpTo({PlainFile}, MaxBatch) : Drop(files)
    \/ \E files \in SeqsUpTo({PlainFile}, MaxBatch) : Change(files)
    \/ Deliver
    \/ Clear

SpecDrag == InitDrag /\ [][NextDrag]_vars

\* Request options: the session's options, set by setRequestOptions(options),
\* and a request-options factory that returns options or nothing.
SessionOptions ==
    {[NoOptions EXCEPT !.url = "S"],
     [NoOptions EXCEPT !.url = "S", !.headers = "S",
                       !.formData = [kind |-> "map", a |-> "S", b |-> Absent]],
     [NoOptions EXCEPT !.method = "S",
                       !.formData = [kind |-> "map", a |-> Absent, b |-> "S"]]}

FactoryResults ==
    {[kind |-> "nothing", options |-> NoOptions],
     [kind |-> "options", options |-> [NoOptions EXCEPT !.url = "F"]],
     [kind |-> "options",
      options |-> [NoOptions EXCEPT !.url = "F", !.method = "F", !.headers = "F",
                        !.formData = [kind |-> "map", a |-> "F", b |-> "F"]]],
     [kind |-> "options",
      options |-> [NoOptions EXCEPT !.headers = "F",
                        !.formData = [kind |-> "map", a |-> "F", b |-> Absent]]]}

OptionsConfigs ==
    {[DefaultConfig EXCEPT !.areRequestOptionsSet = TRUE,
                           !.requestOptions = options,
                           !.requestOptionsFactory = factory] :
        options \in SessionOptions, factory \in FactoryResults \cup {NoFactory}}

InitOptions == InitWith(OptionsConfigs)

NextOptions ==
    \/ StreamFileUploads(TRUE)
    \/ \E files \in SeqsUpTo({PlainFile}, MaxBatch) :
            nextId <= MaxTransportFiles /\ Change(files)
    \/ Deliver
    \/ \E i \in DOMAIN factoryPromises : ResolveFactory(i)
    \/ \E e \in Ids : CallMarkForRemoval(e)
    \/ \E e \in Ids : CallRetry(e)
    \/ Clear

SpecOptions == InitOptions /\ [][NextOptions]_vars

\* ------------------------------------------------------------- properties
\* An accumulator run that the count limit rejects, as the code tests it: on
\* the entities of the batch and of the candidate that are not marked.
Offending(run) ==
    /\ run.limit > 0
    /\ Len(run.current) > run.limit \/ Len(run.candidate) > run.limit

\* C1: in every collection emitted by streamFileUploads no two entities have
\* the same id.
C1_NoDuplicateIds ==
    \A i \in DOMAIN emitted :
        \A j, k \in DOMAIN emitted[i].collection :
            emitted[i].collection[j] = emitted[i].collection[k] => j = k

\* A removal replayed an array whose entities the last scan already held, and
\* two of them were emitted.
C1_Witness ==
    \E i \in DOMAIN scans :
        /\ scans[i].stage = "out"
        /\ Cardinality(Range(scans[i].previous) \cap Range(scans[i].current)) >= 2
        /\ \E j \in DOMAIN emitted : emitted[j].collection = scans[i].result

\* C2: no emitted collection holds an entity that was marked for removal when
\* it was emitted, and a marked entity stays marked and is in no collection
\* emitted later, whatever batch reaches the pipeline.
C2_MarkedNeverEmitted ==
    /\ [](\A i \in DOMAIN emitted : emitted[i].removed = {})
    /\ [][\A e \in Ids : fileUploads[e].isMarkedForRemoval =>
            /\ fileUploads'[e].isMarkedForRemoval
            /\ \A i \in DOMAIN emitted' :
                    e \notin Range(emitted'[i].collection)]_vars

\* A batch holding a marked entity reached the middle scan and a collection
\* with the other entities was emitted.
C2_Witness ==
    /\ \E i \in DOMAIN scans :
            /\ scans[i].stage = "acc"
            /\ Range(scans[i].batch) \cap scans[i].marked # {}
    /\ \E j \in DOMAIN emitted : emitted[j].collection # <<>>

C4_HookOncePerOffendingBatch ==
    (scans # <<>> /\ scans[1].stage = "src")
    => limitCalls = IF Offending(scans[1]) THEN <<scans[1].limit>> ELSE <<>>

\* The batches an accumulator may be handed: constructed entities, none twice.
Batches ==
    {b \in SeqsUpTo(1 .. (nextId - 1), MaxBatch) :
        \A i, j \in DOMAIN b : b[i] = b[j] => i = j}

\* One scan for every seed held: the accumulator reads nothing else of a scan.
SeedStages ==
    {CHOOSE stage \in Stages : seeds[stage] = seed :
        seed \in {seeds[stage] : stage \in Stages}}

\* b1 and then b2 fed to the accumulator of `stage`.
FedInTurn(stage, b1, b2) ==
    ConcatFileUploadArrays(ConcatFileUploadArrays(State, stage, b1).s, stage, b2).out

\* The batch b1 followed by the entities of b2 it does not hold, fed at once.
FedMerged(stage, b1, b2) ==
    ConcatFileUploadArrays(
        State, stage, b1 \o SeqFilter(b2, Ids \ Range(b1))).out

\* C5 as stated: two batches of which neither has more entities than the limit
\* give, fed in turn, the collection their de-duplicated merge gives.
C5_FoldOfBatchesWithinLimit ==
    \A stage \in SeedStages : \A b1, b2 \in Batches :
        (\/ config.fileCountLimit <= 0
         \/ Len(b1) <= config.fileCountLimit /\ Len(b2) <= config.fileCountLimit)
        => FedInTurn(stage, b1, b2) = FedMerged(stage, b1, b2)

\* C5 amended: two batches that are not empty, and whose entities together
\* with the previous kept collection are no more than the limit, give, fed in
\* turn, the collection their de-duplicated merge gives; a batch fed twice
\* gives what it gives fed once.
C5_FoldOfNonEmptyBatches ==
    \A stage \in SeedStages : \A b1, b2 \in Batches :
        (/\ b1 # <<>>
         /\ b2 # <<>>
         /\ \/ config.fileCountLimit <= 0
            \/ Cardinality({e \in Range(seeds[stage]) \cup Range(b1) \cup Range(b2) :
                    ~fileUploads[e].isMarkedForRemoval}) <= config.fileCountLimit)
        => FedInTurn(stage, b1, b2) = FedMerged(stage, b1, b2)

\* Under a limit of two, a second batch of one entity was folded onto a
\* collection of one entity.
C5_Witness ==
    /\ config.fileCountLimit = 2
    /\ scans # <<>>
    /\ scans[1].stage = "src"
    /\ Len(scans[1].previous) = 1
    /\ Len(scans[1].current) = 1
    /\ Len(scans[1].result) = 2

\* What a session keeps from one step to the next.
Persistent(s) ==
    [ fu |-> s.fu, map |-> s.map, seeds |-> s.seeds, inner |-> s.inner,
      removalSubs |-> s.removalSubs, executeSubs |-> s.executeSubs,
      xhrs |-> s.xhrs, errored |-> s.errored, exposed |-> s.exposed ]

\* C6: markForRemoval() called twice in a row on an entity the caller holds
\* leaves the entities, the registry, the collection, the requests (aborted or
\* not) and the rest of the session as the first call left them.
C6_MarkForRemovalIdempotent ==
    \A e \in exposed :
        Persistent(MarkForRemoval(MarkForRemoval(State, e), e))
            = Persistent(MarkForRemoval(State, e))

\* markForRemoval() has just acted on an entity in flight: its request is
\* aborted and its array was replayed into the middle scan.
C6_Witness ==
    \E e \in exposed :
        /\ fileUploads[e].isMarkedForRemoval
        /\ scans # <<>>
        /\ scans[1].stage = "acc"
        /\ e \in Range(scans[1].batch)
        /\ \E i \in DOMAIN xhrs : xhrs[i].id = e /\ xhrs[i].aborted
        /\ emitted # <<>>

\* The progress and response fields of a FileUpload.
ProgressAndResponse(f) ==
    [ percent |-> f.percent, state |-> f.state, response |-> f.response,
      responseCode |-> f.responseCode, responseBody |-> f.responseBody,
      rejected |-> f.rejected ]

\* C7: reset() leaves an entity, whatever its state, with percent 0, state
\* NotStarted, no response, no response code, no response body and rejected
\* false: the progress and response fields of an entity just constructed.
C7_ResetRestoresInitialProgress ==
    [][\A e \in Ids : CallReset(e) =>
          /\ fileUploads'[e].percent = 0
          /\ fileUploads'[e].state = "NotStarted"
          /\ ProgressAndResponse(fileUploads'[e])
                = ProgressAndResponse(NewFileUpload(fileUploads[e].file))]_vars

\* The only request of an entity ended, with a response or an error, its events
\* were handled, and the entity is not started again: reset() acted on a
\* completed or failed entity.
C7_Witness ==
    \E e \in exposed :
        /\ fileUploads[e].uploadHasStarted
        /\ fileUploads[e].state = "NotStarted"
        /\ Len(xhrs) = 1
        /\ xhrs[1].id = e
        /\ xhrs[1].readyState = "DONE"
        /\ xhrs[1].subscribed
        /\ xhrs[1].delayed = <<>>

\* What the policy filter is to decide for a file under configuration c.
PassesSize(c, file) ==
    c.fileSizeLimitMb = 0 \/ file.size < c.fileSizeLimitMb * 1000000

PassesType(c, file) ==
    "*" \in c.allowedContentTypes \/ file.type \in c.allowedContentTypes

\* The files of the entities of a batch, in order.
FilesOf(fu, batch) == [k \in DOMAIN batch |-> fu[batch[k]].file]

\* C8: the entities constructed for the files of a change event are, in order,
\* those of the files that pass the size check (no limit, or a size below the
\* limit in bytes) and the type check (wildcard or listed type); a file of the
\* limit's size or more is no entity, whatever its type.
C8_AdmittedIffSizeAndTypePass ==
    [][\A files \in SeqsUpTo(RawFiles, MaxBatch) : Change(files) =>
          /\ FilesOf(fileUploads', microtasks'[Len(microtasks')])
                = SelectSeq(files, LAMBDA file :
                        PassesSize(config, file) /\ PassesType(config, file))
          /\ \A k \in DOMAIN files :
                ~PassesSize(config, files[k]) =>
                    \A e \in nextId .. (nextId' - 1) :
                        fileUploads'[e].file # files[k]]_vars

\* Under a size limit and a list of types without the wildcard, a change event
\* had one file admitted and one rejected for its size.
C8_Witness ==
    /\ config.fileSizeLimitMb = 1
    /\ "*" \notin config.allowedContentTypes
    /\ errors = <<"FileSizeLimitExceededError">>
    /\ microtasks # <<>>
    /\ Len(microtasks[Len(microtasks)]) = 1

\* C9: a change event ends without throwing, with one error on the error stream
\* per rejected file, in order: FileSizeLimitExceeded when the size check
\* fails, DisallowedContentType otherwise; an entity is constructed and
\* registered for each of the other files and for no rejected file.
C9_OneErrorPerRejectedFile ==
    [][\A files \in SeqsUpTo(RawFiles, MaxBatch) : Change(files) =>
          LET passes(file) == PassesSize(config, file) /\ PassesType(config, file)
              rejected == SelectSeq(files, LAMBDA file : ~passes(file))
              admitted == SelectSeq(files, passes)
              batch == microtasks'[Len(microtasks')]
          IN /\ errors' = [k \in DOMAIN rejected |->
                              IF ~PassesSize(config, rejected[k])
                              THEN "FileSizeLimitExceededError"
                              ELSE "DisallowedContentTypeError"]
             /\ Len(microtasks') = Len(microtasks) + 1
             /\ batch = [k \in DOMAIN admitted |-> nextId + k - 1]
             /\ nextId' = nextId + Len(admitted)
             /\ fileUploadSubjectsMap' = fileUploadSubjectsMap \cup Range(batch)
          ]_vars

\* A change event had one file rejected for its type and the other admitted.
C9_Witness ==
    /\ errors = <<"DisallowedContentTypeError">>
    /\ microtasks # <<>>
    /\ Len(microtasks[Len(microtasks)]) = 1
    /\ fileUploadSubjectsMap = {nextId - 1}

\* C10, for a status that is 2xx or 3xx: when the load event of a request that
\* ended with status s is applied to its entity, the response code is s, the
\* body is recorded, the state is Completed, succeeded is true and failed is
\* false.
C10_SuccessStatusRecorded ==
    [][\A i \in DOMAIN xhrs :
          (/\ Timer(i)
           /\ xhrs[i].readyState = "DONE"
           /\ fileUploads[xhrs[i].id].state # "Completed"
           /\ xhrs[i].status \in 200 .. 399)
          => LET f == fileUploads'[xhrs[i].id]
             IN /\ f.responseCode = xhrs[i].status
                /\ f.responseBody = "response"
                /\ f.state = "Completed"
                /\ Succeeded(f)
                /\ ~Failed(f)]_vars

\* C11: markForRemoval() on an entity aborts each of its requests in flight, and
\* no delayed progress or load event of a request aborted for a removal, also
\* one that was pending when abort() was called, changes the entity's progress,
\* state or response.
C11_AbortedTransportIgnored ==
    [][\A e \in Ids :
          /\ CallMarkForRemoval(e) =>
                \A i \in DOMAIN xhrs :
                    (xhrs[i].id = e /\ xhrs[i].readyState = "OPENED")
                    => xhrs'[i].aborted
          /\ \A i \in DOMAIN xhrs :
                (/\ xhrs[i].id = e
                 /\ fileUploads[e].isMarkedForRemoval
                 /\ xhrs[i].aborted
                 /\ Timer(i))
                => ProgressAndResponse(fileUploads'[e])
                        = ProgressAndResponse(fileUploads[e])]_vars

\* C12: clear() aborts every request in flight, empties the registry, sets the
\* file input's value to the empty selection and, on a live stream, emits the
\* empty collection and nothing else; it leaves no request with an event still
\* to apply, and no event of a request that clear() has reached changes an
\* entity.
C12_ClearAbortsAndEmpties ==
    [][/\ Clear =>
            /\ \A i \in DOMAIN xhrs :
                    /\ xhrs[i].readyState = "OPENED" => xhrs'[i].aborted
                    /\ xhrs'[i].readyState # "OPENED"
                    /\ xhrs'[i].delayed = <<>>
            /\ fileUploadSubjectsMap' = {}
            /\ inputValue' = ""
            /\ (subscribed /\ ~errored) =>
                    /\ emitted' # <<>>
                    /\ \A k \in DOMAIN emitted' : emitted'[k].collection = <<>>
       /\ \A i \in DOMAIN xhrs :
            (~xhrs[i].abortOnReset /\ (Timer(i) \/ XhrError(i)))
            => fileUploads' = fileUploads]_vars

\* clear() has just acted on a live session with an upload in progress: the
\* request is aborted, the registry and the input are empty, the empty
\* collection was emitted.
C12_Witness ==
    /\ subscribed /\ ~errored
    /\ emitted # <<>>
    /\ emitted[Len(emitted)].collection = <<>>
    /\ fileUploadSubjectsMap = {}
    /\ inputValue = ""
    /\ \E i \in DOMAIN xhrs :
            /\ xhrs[i].aborted
            /\ ~xhrs[i].abortOnReset
            /\ ~xhrs[i].subscribed
            /\ fileUploads[xhrs[i].id].state = "InProgress"

\* The runs of the middle scan of this step that returned a collection with an
\* entity whose upload had not started.
QueuedRuns ==
    SelectSeq(scans, LAMBDA run :
        run.stage = "acc" /\ Range(run.result) \ run.started # {})

C14_StartedAfterQueuedCallback ==
    [][/\ (/\ config.allFilesQueuedCallback = "none"
           /\ config.areRequestOptionsSet
           /\ subscribed /\ ~errored
           /\ Deliver)
          => \A e \in Range(Head(microtasks)) \cap Range(seeds'["acc"]) :
                /\ fileUploads'[e].uploadHasStarted
                /\ \E i \in DOMAIN xhrs' : xhrs'[i].id = e
       /\ \A e \in Ids :
            (~fileUploads[e].uploadHasStarted /\ fileUploads'[e].uploadHasStarted)
            => CASE config.allFilesQueuedCallback = "promise" ->
                        \E i \in DOMAIN queuedResults :
                            /\ ResolveQueued(i)
                            /\ queuedResults[i].live
                            /\ e \in Range(queuedResults[i].list)
                 [] config.allFilesQueuedCallback \in {"void", "sync"} ->
                        \E k \in DOMAIN allFilesQueuedCalls' :
                            e \in Range(allFilesQueuedCalls'[k])
                 [] OTHER -> TRUE
       /\ \A i \in DOMAIN queuedResults :
            (~queuedResults[i].live /\ ResolveQueued(i))
            => fileUploads' = fileUploads /\ xhrs' = xhrs]_vars

\* The promise of the latest call resolved and its entities were started, while
\* the promise of a superseded call is still pending.
C14_Witness ==
    /\ config.allFilesQueuedCallback = "promise"
    /\ \E e \in Ids :
            /\ fileUploads[e].uploadHasStarted
            /\ \E i \in DOMAIN xhrs : xhrs[i].id = e
    /\ \E i \in DOMAIN queuedResults : ~queuedResults[i].live

\* C15: while no request options have been set, a step in which a collection
\* with entities reaches the executor ends the stream with the
\* MissingRequestOptionsError in that step, and no step sets uploadHasStarted
\* or opens a request.
C15_MissingRequestOptions ==
    [][~config.areRequestOptionsSet =>
          /\ \A e \in Ids : ~fileUploads'[e].uploadHasStarted
          /\ xhrs' = <<>>
          /\ (/\ subscribed /\ ~errored
              /\ \E k \in DOMAIN scans' :
                    scans'[k].stage = "acc" /\ scans'[k].result # <<>>)
             => /\ errored'
                /\ emitted' = <<>>]_vars

\* A batch was delivered to a session without request options: the stream has
\* ended with the error and the entities are not started.
C15_Witness ==
    /\ ~config.areRequestOptionsSet
    /\ errored
    /\ nextId > 1
    /\ \E k \in DOMAIN scans : scans[k].stage = "acc" /\ scans[k].result # <<>>
    /\ \A e \in Ids : ~fileUploads[e].uploadHasStarted
    /\ xhrs = <<>>

C17_FailureLeavesSiblings ==
    [][\A i \in DOMAIN xhrs :
          (\/ XhrError(i)
           \/ /\ Timer(i)
              /\ xhrs[i].readyState = "DONE"
              /\ ~UploadSuccessOrRedirectCode(xhrs[i].status))
          => \A e \in Ids \ {xhrs[i].id} :
                /\ fileUploads'[e] = fileUploads[e]
                /\ \A j \in DOMAIN xhrs : xhrs[j].id = e => xhrs'[j] = xhrs[j]]_vars

\* One entity of a batch of two has failed while the request of the other is
\* open and its upload in progress.
C17_Witness ==
    \E e, f \in Ids :
        /\ e # f
        /\ inner.list = <<e, f>> \/ inner.list = <<f, e>>
        /\ Failed(fileUploads[e])
        /\ fileUploads[f].state = "InProgress"
        /\ ~fileUploads[f].isMarkedForRemoval
        /\ \E j \in DOMAIN xhrs :
                xhrs[j].id = f /\ xhrs[j].readyState = "OPENED" /\ ~xhrs[j].aborted

\* C18: with an allFilesUploadedCallback configured, an emission of the
\* executed batch calls the callback, with the whole batch, when every entity
\* of the batch is Completed or Failed, and does not call it when an entity is
\* not started or in progress.
C18_AllUploadedCallbackOnTerminal ==
    [][config.allFilesUploadedCallback # "none" =>
          \A i \in DOMAIN xhrs :
              ((Timer(i) \/ XhrError(i)) /\ emitted' # <<>>)
              => allFilesUploadedCalls' =
                    IF \A e \in Range(inner'.list) :
                            fileUploads'[e].state \in {"Completed", "Failed"}
                    THEN <<inner'.list>>
                    ELSE <<>>]_vars

\* C19: with a fileUploadedCallback configured, the load event of a request
\* that ended with a 2xx or 3xx status calls the callback once, with the
\* entity; a load event with another status and a transport error do not call
\* it.
C19_FileUploadedCallbackOnSuccess ==
    [][config.fileUploadedCallback # "none" =>
          \A i \in DOMAIN xhrs :
              /\ (/\ Timer(i)
                  /\ xhrs[i].readyState = "DONE"
                  /\ fileUploads[xhrs[i].id].state # "Completed")
                 => fileUploadedCalls' =
                        IF UploadSuccessOrRedirectCode(xhrs[i].status)
                        THEN <<xhrs[i].id>>
                        ELSE <<>>
              /\ XhrError(i) => fileUploadedCalls' = <<>>]_vars

\* C20: in a session with a single-file input, the selection that the 'change'
\* listener hands on after its await is emitted as the whole collection: the
\* entities created from the files it admitted and no entity of an earlier
\* selection.
C20_SingleFileSelectionReplaces ==
    [][(/\ Deliver
        /\ ~config.multiple
        /\ subscribed /\ ~errored
        /\ config.areRequestOptionsSet \/ Head(microtasks) = <<>>)
       => /\ emitted' # <<>>
          /\ emitted'[Len(emitted')].collection = Head(microtasks)
          /\ Range(emitted'[Len(emitted')].collection) \cap exposed = {}]_vars

\* The second selection of a single-file session has been emitted alone while
\* the entity of the first selection, emitted before, is not marked for
\* removal.
C20_Witness ==
    /\ ~config.multiple
    /\ emitted # <<>>
    /\ emitted[Len(emitted)].collection = <<2>>
    /\ 1 \in exposed
    /\ ~fileUploads[1].isMarkedForRemoval
    /\ microtasks = <<>>

\* C21: in a session with a multi-file input or with drop zones only, for
\* which the caller configured no file count limit, every batch a source
\* hands on is appended: the collection emitted is the collection emitted
\* before, without the entities marked for removal, followed by the batch.
C21_EventsAreAdditive ==
    [][(/\ Deliver
        /\ subscribed /\ ~errored
        /\ config.multiple \/ ~InputRegistered(State))
       => /\ emitted' # <<>>
          /\ emitted'[Len(emitted')].collection =
                Kept(State, seeds["out"]) \o Head(microtasks)]_vars

\* Ids are given to entities in the order in which they are admitted: a
\* sequence of ids in first-seen order is one in ascending order.
FirstSeenOrder(seq) == \A i, j \in DOMAIN seq : i < j => seq[i] < seq[j]

\* C22: every collection the accumulator returns and every collection emitted
\* holds its entities in the order in which they were first admitted.
C22_FirstSeenOrder ==
    /\ \A k \in DOMAIN emitted : FirstSeenOrder(emitted[k].collection)
    /\ \A k \in DOMAIN scans : FirstSeenOrder(scans[k].result)

\* C23: with a request-options factory configured, every request is opened
\* with the factory's result overridden by the session's options: each
\* top-level key has the session's value when the session has the key, else
\* the factory's, else the entity's own; each form field has the session's
\* value when the session has the field, else the factory's.
C23_SessionOptionsOverride ==
    config.requestOptionsFactory.kind # "none" =>
        \A i \in DOMAIN xhrs :
            LET request == xhrs[i].request
                factory == config.requestOptionsFactory.options
                session == config.requestOptions
            IN /\ \A k \in {"url", "method", "headers"} :
                    request[k] = IF session[k] # Absent THEN session[k]
                                 ELSE IF factory[k] # Absent THEN factory[k]
                                 ELSE DefaultRequestOptions[k]
               /\ \A field \in FormFields :
                    request.formData[field] =
                        IF session.formData[field] # Absent
                        THEN session.formData[field]
                        ELSE factory.formData[field]

\* The status of the entity's response, or its response code, is outside the
\* 2xx/3xx range.
StatusOutsideSuccess(f) ==
    \/ f.response # NoResponse /\ f.response # 0
            /\ ~UploadSuccessOrRedirectCode(f.response)
    \/ f.responseCode # 0 /\ ~UploadSuccessOrRedirectCode(f.responseCode)

\* C24: of every entity, `failed` is true exactly when the entity was
\* rejected, its state is Failed or its response status is outside 2xx/3xx,
\* and `succeeded` is true exactly when its state is Completed and `failed`
\* is false.
C24_FailedAndSucceeded ==
    \A e \in Ids :
        LET f == fileUploads[e]
        IN /\ Failed(f) <=> (f.rejected \/ f.state = "Failed" \/ StatusOutsideSuccess(f))
           /\ Succeeded(f) <=> (f.state = "Completed" /\ ~Failed(f))

\* The request ended with a transport error: done, without a status.
Errored(x) == x.readyState = "DONE" /\ x.status = 0 /\ ~x.aborted

\* C25: the 'error' event of a request whose events are listened to sets the
\* entity's state to Failed and sends one error to the error stream, and a
\* Failed entity leaves that state only by reset() or by an event of a
\* request other than one that ended with an error.
C25_TransportErrorFails ==
    [][/\ \A i \in DOMAIN xhrs :
            (XhrError(i) /\ xhrs[i].subscribed)
            => /\ fileUploads'[xhrs[i].id].state = "Failed"
               /\ Len(errors') = 1
       /\ \A e \in Ids :
            (fileUploads[e].state = "Failed" /\ fileUploads'[e].state # "Failed")
            => \/ CallReset(e)
               \/ \E j \in DOMAIN xhrs :
                    Timer(j) /\ xhrs[j].id = e /\ ~Errored(xhrs[j])]_vars

\* C26: the delayed events of a request are applied oldest first, and no
\* event of a request changes its entity once the request's 'error' event
\* was handled or its completion was applied.
C26_EventsInOrder ==
    [][\A i \in DOMAIN xhrs :
          Timer(i)
          => /\ xhrs'[i].delayed = Tail(xhrs[i].delayed)
             /\ (\/ Errored(xhrs[i])
                 \/ /\ xhrs[i].readyState = "DONE"
                    /\ fileUploads[xhrs[i].id].state = "Completed")
                => fileUploads'[xhrs[i].id] = fileUploads[xhrs[i].id]]_vars

\* C27: except in a reset() of the entity, no step changes the state of a
\* Completed or Failed entity and none takes an entity from InProgress to
\* NotStarted.
C27_StateMachine ==
    [][\A e \in Ids :
          ~CallReset(e)
          => /\ fileUploads[e].state \in {"Completed", "Failed"}
                => fileUploads'[e].state = fileUploads[e].state
             /\ fileUploads[e].state = "InProgress"
                => fileUploads'[e].state # "NotStarted"]_vars

\* C28: the progress percent of every entity is always an integer from 0 to
\* 100; while its upload runs under a transport that reports 0 <= loaded <=
\* total it never decreases, and it is 100 once the entity is completed or
\* failed.
C28_PercentInRange ==
    [][\A e \in DOMAIN fileUploads' :
            /\ fileUploads'[e].percent \in 0..100
            /\ fileUploads'[e].state \in {"Completed", "Failed"}
                    => fileUploads'[e].percent = 100
            /\ e \in DOMAIN fileUploads
                    => fileUploads'[e].percent >= fileUploads[e].percent]_vars

\* C29: after every step in which the accumulator ran, the registry holds no
\* entity that is marked for removal, whether the caller marked it or a
\* count-limit rejection did.
C29_RegistryHoldsNoMarked ==
    scans # <<>> => fileUploadSubjectsMap \cap Marked(State) = {}

\* The registrations after the first that name the source `src`.
LaterCalls(src) == {r \in DOMAIN registrations : r > 1 /\ src \in registrations[r]}

\* Every stream of a later registration of the source was sent a batch.
LaterStreamsFed(src, later) ==
    \A r \in LaterCalls(src) : \E k \in DOMAIN later : later[k].call = r

\* C30: a source registered more than once has its listeners attached once:
\* one 'change' or 'drop' event creates one entity per file, and the stream of
\* every later registration of that source is sent the event's batch.
C30_SourceRegisteredOnce ==
    [][/\ Len(changeListeners') <= 1
       /\ Len(dropListeners') <= 1
       /\ \A files \in SeqsUpTo({PlainFile}, MaxBatch) :
            /\ Change(files)
                    => /\ nextId' = nextId + Len(files)
                       /\ LaterStreamsFed("input", laterNext')
            /\ Drop(files)
                    => /\ nextId' = nextId + Len(files)
                       /\ LaterStreamsFed("zone", laterNext')]_vars

\* C31: clear() detaches every listener that the registration of a source
\* attached, the 'change' listeners of the input and the 'drop' listeners of
\* the drop zone, so that no event of a source reaches a listener afterwards.
C31_ClearDetachesListeners ==
    [][Clear => changeListeners' = <<>> /\ dropListeners' = <<>>]_vars

\* The session was cleared after the upload of e started: a request of e was
\* aborted by the reset signal.
ClearedSinceStart(e) ==
    \E i \in DOMAIN xhrs : xhrs[i].id = e /\ ~xhrs[i].abortOnReset

\* The number of requests retry() on e is to open.
AttemptsOfRetry(e) ==
    IF fileUploads[e].uploadHasStarted /\ ~ClearedSinceStart(e) THEN 1 ELSE 0

\* _uploadFile has run for e and the session was not cleared since: a request
\* of e is still to be aborted by the next reset signal.
UploadSetUp(e) ==
    \E i \in DOMAIN xhrs : xhrs[i].id = e /\ xhrs[i].abortOnReset

\* retry() changes no entity and no earlier request, and opens n requests.
RetryOpens(e, n) ==
    /\ fileUploads' = fileUploads
    /\ Len(xhrs') = Len(xhrs) + n
    /\ SubSeq(xhrs', 1, Len(xhrs)) = xhrs
    /\ \A i \in DOMAIN xhrs' \ DOMAIN xhrs : xhrs'[i].id = e

\* C32 as stated: retry() changes no field of any entity and no earlier
\* request; it opens one new request, for the entity, when the upload of the
\* entity has started and the session was not cleared since, and none
\* otherwise.
C32_RetryOpensOneAttempt ==
    [][\A e \in Ids : CallRetry(e) => RetryOpens(e, AttemptsOfRetry(e))]_vars

\* C32: retry() changes no field of any entity and no earlier request; it
\* opens one new request for the entity when _uploadFile has run for the
\* entity and the session was not cleared since, and none otherwise: none
\* while the result of the request-options factory is pending.
C32_RetryOpensAttemptOfSetUpUpload ==
    [][\A e \in Ids :
        CallRetry(e) => RetryOpens(e, IF UploadSetUp(e) THEN 1 ELSE 0)]_vars

C32_Witness ==
    /\ Len(xhrs) = 2
    /\ xhrs[1].id = 1 /\ xhrs[2].id = 1
    /\ xhrs[1].abortOnReset /\ xhrs[2].abortOnReset
    /\ xhrs[2].readyState = "OPENED"
    /\ config.requestOptionsFactory.kind = "options"

\* drag and drop is permitted: no flag selector is configured or the document
\* holds the flag element.
Permitted == ~config.dragAndDropFlagSelector \/ flagInDocument

\* C33: the drag-over boolean starts false; while drag and drop is permitted a
\* 'dragover' sets it and a 'dragleave' or a 'drop' clears it; while it is not
\* permitted the three events leave it as it is and a drop creates no entity.
\* The gate is the document's state at the event.
C33_DragOverGated ==
    /\ ~isDraggedOver
    /\ [][/\ DragOver => isDraggedOver' = (Permitted \/ isDraggedOver)
          /\ DragLeave => isDraggedOver' = (~Permitted /\ isDraggedOver)
          /\ \A files \in SeqsUpTo({PlainFile}, MaxBatch) :
                Drop(files) =>
                    /\ isDraggedOver' = (~Permitted /\ isDraggedOver)
                    /\ Permitted => nextId' = nextId + Len(files)
                    /\ ~Permitted => nextId' = nextId /\ fileUploads' = fileUploads
                                       /\ fileUploadSubjectsMap' = fileUploadSubjectsMap]_vars

\* A drop was refused while the zone was shown as dragged over.
C33_Witness ==
    /\ isDraggedOver
    /\ ~Permitted
    /\ microtasks = <<<<>>>>
    /\ nextId > 1

\* The entities of the collection emitted last that are not marked for removal.
Accumulated == Range(Kept(State, seeds["out"]))

\* The step leaves entity e and its requests as they are and opens no request
\* for it.
LeftAlone(e) ==
    /\ fileUploads'[e] = fileUploads[e]
    /\ Len(xhrs') >= Len(xhrs)
    /\ \A i \in DOMAIN xhrs : xhrs[i].id = e => xhrs'[i] = xhrs[i]
    /\ \A i \in DOMAIN xhrs' \ DOMAIN xhrs : xhrs'[i].id # e

\* C34: the arrival of a batch of new entities, admitted or rejected for the
\* count limit, leaves every accumulated entity as it is (not marked, fields
\* unchanged), aborts none of its requests and opens none for it; in a session
\* with a multi-file input or with drop zones only the entity is also in the
\* collection the step emits.
C34_BatchLeavesAccumulatedAlone ==
    [][(Deliver /\ Head(microtasks) # <<>>) =>
        \A e \in Accumulated :
            /\ LeftAlone(e)
            /\ (subscribed /\ ~errored /\ (config.multiple \/ ~InputRegistered(State)))
                    => \A k \in DOMAIN emitted' : e \in Range(emitted'[k].collection)]_vars

\* A batch was rejected for the count limit while entity 1, accumulated and
\* with its request open, stayed in the emitted collection.
C34_Witness ==
    /\ config.multiple
    /\ limitCalls # <<>>
    /\ fileUploads[2].isMarkedForRemoval
    /\ emitted # <<>>
    /\ emitted[Len(emitted)].collection = <<1>>
    /\ fileUploads[1].uploadHasStarted
    /\ \E i \in DOMAIN xhrs : xhrs[i].id = 1 /\ xhrs[i].readyState = "OPENED"

\* clear() was called after the last selection of files: the input's value,
\* which a selection sets, is empty although entities were created.
ClearedAfterSelection == nextId > 1 /\ inputValue = ""

\* C35: once the session is cleared, and until a new file is admitted, the
\* registry is empty and no request of an entity is in flight, also when the
\* result of the request-options factory was pending at the clear.
C35_NothingInFlightAfterClear ==
    ClearedAfterSelection =>
        /\ fileUploadSubjectsMap = {}
        /\ \A i \in DOMAIN xhrs : xhrs[i].readyState # "OPENED"

\* C36: in a session with a multi-file input or with drop zones only, a batch
\* without entities (every file was rejected by the policy filter, or the drop
\* was refused by the drag-and-drop gate) leaves the accumulated collection as
\* it is: the step emits nothing else and the accumulator keeps its entities.
C36_EmptyBatchKeepsCollection ==
    [][(/\ Deliver
        /\ Head(microtasks) = <<>>
        /\ subscribed /\ ~errored
        /\ config.multiple \/ ~InputRegistered(State))
       => /\ \A k \in DOMAIN emitted' :
                emitted'[k].collection = Kept(State, seeds["out"])
          /\ Kept(State, seeds'["out"]) = Kept(State, seeds["out"])]_vars

\* C37: no collection emitted holds an entity that was accumulated before a
\* reset, that is, one whose request the reset signal of clear() aborted, also
\* when such an entity is marked for removal after the reset.
C37_NoEntityFromBeforeReset ==
    \A k \in DOMAIN emitted :
        \A e \in Range(emitted[k].collection) : ~ClearedSinceStart(e)

\* C38: allFilesUploadedCallback is called at most once with a given set of
\* completed entities: no step calls it with a set it was called with before,
\* and no step calls it twice with one set.
C38_AllFilesUploadedOnce ==
    [][/\ \A k \in DOMAIN allFilesUploadedCalls' :
            Range(allFilesUploadedCalls'[k]) \notin allFilesUploadedSets
       /\ \A j, k \in DOMAIN allFilesUploadedCalls' :
            j # k => Range(allFilesUploadedCalls'[j]) # Range(allFilesUploadedCalls'[k])]_vars

\* Entity e is in the accumulated collection.
InAccumulated(e) == e \in Range(seeds["acc"])

\* The upload of e has started and a request was opened for it.
TransportOpened(e) ==
    fileUploads[e].uploadHasStarted /\ \E i \in DOMAIN xhrs : xhrs[i].id = e

\* C39: with request options set, promises that resolve and finitely many
\* selections, removals and clears, every entity of the accumulated
\* collection either leaves the collection or eventually has its upload
\* started and a request opened.
C39_EventuallyStarted ==
    \A e \in 1 .. MaxBatch :
        InAccumulated(e) ~> (TransportOpened(e) \/ ~InAccumulated(e))

\* An entity whose upload started when the promise of the callback resolved
\* and whose request was opened when the promise of the factory did.
C39_Witness ==
    /\ config.allFilesQueuedCallback = "promise"
    /\ config.requestOptionsFactory.kind = "options"
    /\ InAccumulated(1)
    /\ TransportOpened(1)
    /\ queuedResults = <<>> /\ factoryPromises = <<>>

\* The requests of e that are in flight and whose events reach the entity.
Delivering(e) ==
    {i \in DOMAIN xhrs :
        xhrs[i].id = e /\ xhrs[i].readyState = "OPENED" /\ xhrs[i].subscribed}

\* C40: at most one request per entity is in flight with its progress and
\* load events subscribed, also after retry() on an entity whose earlier
\* request has not ended.
C40_OneAttemptInFlight ==
    \A e \in Ids : Cardinality(Delivering(e)) <= 1
====
